---- MODULE Spec2Model ----
(***************************************************************************)
(* ConcurrentStack<T> of src/src/lib.rs: a Treiber stack whose head `top`  *)
(* and free list `trash` are AtomicStampedPtr slots (pointer + stamp).     *)
(* Every access to shared memory (a load or compare_exchange of a slot, a  *)
(* read or write of a node field) is one atomic step of the thread that    *)
(* performs it, so that the unsynchronised read of p's next-link in        *)
(* pop_top sees whichever value an interleaved writer has left there.      *)
(***************************************************************************)
EXTENDS Naturals, Sequences, FiniteSets

\* ---------------------------------------------------------------- bounds
NumThreads == 3          \* client threads of Spec
MaxCalls == 4            \* calls the client threads of Spec make altogether
SoloOps == 6             \* calls of the single thread of SpecSolo
SoloVal == 3             \* payloads pushed in SpecSolo are 1..SoloVal
StressN == 2             \* producers of multi_thread_sum (10 in the test)
StressK == 2             \* each producer pushes 0..StressK-1 (100 in the test)

Threads == 1..NumThreads
Producers == 1..StressN
Consumer == StressN + 1
Main == StressN + 2
StressThreads == 1..(StressN + 2)
Payloads == 0..(MaxCalls + SoloVal + StressK)

\* enough addresses for every push of any specification to allocate
MostPushes(a, b, c) == IF a >= b /\ a >= c THEN a ELSE IF b >= c THEN b ELSE c
MaxNodes == MostPushes(MaxCalls, SoloOps, StressN * StressK)
Nodes == 1..MaxNodes

Null == 0                \* std::ptr::null_mut()
None == [k |-> "none"]               \* Option::None
Some(x) == [k |-> "some", x |-> x]   \* Option::Some(x)
Unit == [k |-> "unit"]               \* the () that push returns
Bool(b) == [k |-> "bool", b |-> b]   \* the bool that empty returns
Pending == [k |-> "pending"]         \* the call has not returned yet

VARIABLES
    top,        \* ConcurrentStack.top:   [ptr, stamp]
    trash,      \* ConcurrentStack.trash: [ptr, stamp]
    data,       \* Node.data of every address (None or a payload)
    next,       \* Node.next of every address
    allocated,  \* addresses handed out by Box::new so far
    freed,      \* how often Box::from_raw + drop released each address
    dropped,    \* Drop::drop has run
    th,         \* per thread: program position and locals
    role,       \* per thread: what drives it (client, solo, producer, consumer)
    iter,       \* per thread: calls made so far (the producer's loop index i)
    sum,        \* the consumer's running sum in multi_thread_sum
    abs,        \* history: the abstract sequential stack (head = top)
    pushedCnt,  \* history: how often each value was passed to push
    poppedCnt,  \* history: how often each value was returned by pop
    peakLive,   \* history: most nodes ever in the top chain at once
    peakInUse,  \* history: most nodes ever out of the trash chain at once
    hist,       \* history (solo thread only): completed calls in order
    linked,     \* history: per node in use, the payload of the push that linked it
    meter,      \* whether quiet is kept (it is in SpecMeter only)
    quiet       \* history: steps inside push or pop since a push or pop returned

vars == <<top, trash, data, next, allocated, freed, dropped, th, role, iter,
          sum, abs, pushedCnt, poppedCnt, peakLive, peakInUse, hist, linked,
          meter, quiet>>

Max(a, b) == IF a >= b THEN a ELSE b

\* ------------------------------------------------ AtomicStampedPtr (extern crate)
\* AtomicStampedPtr::default(): null pointer, stamp 0.
DefaultSlot == [ptr |-> Null, stamp |-> 0]

\* load(): the (pointer, stamp) pair, read as one unit.
Load(slot) == slot

\* mutant: a compare-and-swap on the pointer alone, the stamp stays as it is
CompareExchangeNoStamp(slot, p, v, new) ==
    IF slot.ptr = p /\ slot.stamp = v
    THEN [ok |-> TRUE, slot |-> [ptr |-> new, stamp |-> slot.stamp]]
    ELSE [ok |-> FALSE, slot |-> slot]

\* compare_exchange((p, v), new): replaces the pair by (new, stamp + 1) when the
\* slot holds exactly (p, v); otherwise reports failure and changes nothing.
\* The stamp is a 64-bit counter: it cannot wrap within any run modelled here.
CompareExchange(slot, p, v, new) ==
    IF slot.ptr = p /\ slot.stamp = v
    THEN [ok |-> TRUE, slot |-> [ptr |-> new, stamp |-> slot.stamp + 1]]
    ELSE [ok |-> FALSE, slot |-> slot]

\* ---------------------------------------------------------------- chains
\* The addresses met when following next-links nx from p, at most fuel of them.
RECURSIVE ChainOf(_, _, _)
ChainOf(nx, p, fuel) ==
    IF p = Null \/ fuel = 0 THEN <<>>
    ELSE <<p>> \o ChainOf(nx, nx[p], fuel - 1)

Range(s) == {s[i] : i \in 1..Len(s)}

TopChain == ChainOf(next, top.ptr, MaxNodes + 1)
TrashChain == ChainOf(next, trash.ptr, MaxNodes + 1)

\* ------------------------------------------------------------ thread state
ThreadInit ==
    [pc |-> "idle", op |-> "none", p |-> Null, v |-> 0, n |-> Null,
     node |-> Null, raw |-> None, out |-> None, ret |-> Pending,
     absRet |-> Pending, seen |-> Null, fresh |-> FALSE]

AllThreads == DOMAIN th
AllIdle == \A t \in AllThreads : th[t].pc \in {"idle", "done"}

\* pick_trash calls pop_top(&self.trash), pop calls pop_top(&self.top)
SlotOfPopTop(t) == IF th[t].op = "push" THEN "trash" ELSE "top"
\* do_push calls push_top(&self.top, ..), put_trash calls push_top(&self.trash, ..)
SlotOfPushTop(t) == IF th[t].op = "push" THEN "top" ELSE "trash"

Get(s) == IF s = "top" THEN top ELSE trash
Put(s, x) == IF s = "top" THEN top' = x /\ trash' = trash
                           ELSE trash' = x /\ top' = top

\* A call returns: the frame's locals go out of scope.
Return(r, val, aval) ==
    [r EXCEPT !.pc = "idle", !.ret = val, !.absRet = aval, !.p = Null, !.v = 0,
              !.n = Null, !.node = Null, !.raw = None, !.out = None,
              !.seen = Null, !.fresh = FALSE]

\* A call starts.
Enter(r, op, pc, raw) ==
    [r EXCEPT !.op = op, !.pc = pc, !.raw = raw, !.ret = Pending,
              !.absRet = Pending, !.seen = Null, !.fresh = FALSE]

\* mutant: the load sits in front of the loop, a new iteration goes on with
\* the pair loaded once
RetryStale(r, fn) ==
    [r EXCEPT !.pc = IF fn = "pop_top" THEN "pop_top_next" ELSE "push_top_next"]

\* `loop { let (p, v) = top.load(); .. }` of fn (pop_top or push_top) after a
\* failed compare_exchange: the locals of the iteration go out of scope, the
\* next iteration starts with the load.
Retry(r, fn) ==
    [r EXCEPT !.pc = IF fn = "pop_top" THEN "pop_top_load" ELSE "push_top_load",
              !.p = Null, !.v = 0, !.n = Null]

\* ------------------------------------------------------ history bookkeeping
\* The abstract sequential stack: push and pop on a sequence, head first.
AbsPush(stk, x) == <<x>> \o stk
AbsPop(stk) == IF stk = <<>> THEN [res |-> None, stk |-> stk]
               ELSE [res |-> Some(Head(stk)), stk |-> Tail(stk)]

\* pushes that found trash empty and are about to allocate
PendingAllocs(thr) ==
    Cardinality({t \in DOMAIN thr : thr[t].pc = "do_push_fill" /\ thr[t].node = Null})

\* nodes a thread holds detached from both chains, between its unlink (or its
\* allocation) and its link
InFlight(thr) == {thr[t].node : t \in DOMAIN thr} \ {Null}

\* the threads whose step inside push or pop this is
Stepping ==
    {t \in DOMAIN th : /\ th'[t] # th[t]
                       /\ th[t].pc \notin {"idle", "done"}
                       /\ th[t].op \in {"push", "pop"}}

\* the threads whose push or pop returns with this step
Returning == {t \in Stepping : th'[t].pc = "idle"}

\* the threads whose push_top succeeds with this step
Linking == {t \in Returning : th[t].pc = "push_top_cas"}

\* Last conjunct of every step: the history of the step just taken and the
\* peaks over the state just reached.
Track ==
    /\ peakLive' = Max(peakLive, Len(ChainOf(next', top'.ptr, MaxNodes + 1)))
    /\ peakInUse' = Max(peakInUse,
           Cardinality(Range(ChainOf(next', top'.ptr, MaxNodes + 1))
                         \cup InFlight(th'))
             + PendingAllocs(th'))
    /\ linked' = [a \in Nodes |->
                    IF \E t \in Linking : th[t].node = a
                    THEN LET t == CHOOSE u \in Linking : th[u].node = a
                         IN IF th[t].op = "push" THEN th[t].raw ELSE None
                    ELSE linked[a]]
    /\ meter' = meter
    /\ quiet' = IF ~meter \/ Stepping = {} THEN quiet
                ELSE IF Returning # {} THEN 0 ELSE quiet + 1

Log(t, entry) ==
    hist' = IF role[t] = "solo" THEN Append(hist, entry) ELSE hist

\* ------------------------------------------------------------- pop_top
\* mutant: the null test is missing
PopTopIsEmptyNever(p) == FALSE

\* `if p.is_null() { return p; }`
PopTopIsEmpty(p) == p = Null

\* mutant: the link is not read, the rest of the chain is cut off
PopTopReadNextCut(p) == Null

\* mutant: the head's own address is taken for its link
PopTopReadNextSelf(p) == p

\* `let n = unsafe { (*p).next };`: the link as it is in memory right now
PopTopReadNext(p) == next[p]

\* pop_top, `let (p, v) = top.load();` and the null test.  A null head ends the
\* call: pick_trash hands null to do_push, pop returns None.
PopTopLoad(t) ==
    /\ ~dropped
    /\ th[t].pc = "pop_top_load"
    /\ LET pv == Load(Get(SlotOfPopTop(t)))
           r  == [th[t] EXCEPT !.p = pv.ptr, !.v = pv.stamp]
       IN IF PopTopIsEmpty(pv.ptr)
          THEN IF th[t].op = "push"
               THEN /\ th' = [th EXCEPT ![t] = [r EXCEPT !.pc = "do_push_fill",
                                  !.node = pv.ptr, !.seen = pv.ptr,
                                  !.p = Null, !.v = 0, !.n = Null]]
                    /\ UNCHANGED <<abs, poppedCnt, hist>>
               ELSE /\ th' = [th EXCEPT ![t] = Return(r, None, AbsPop(abs).res)]
                    /\ abs' = AbsPop(abs).stk
                    /\ Log(t, <<"pop", None>>)
                    /\ UNCHANGED poppedCnt
          ELSE /\ th' = [th EXCEPT ![t] = [r EXCEPT !.pc = "pop_top_next",
                                                    !.seen = pv.ptr]]
               /\ UNCHANGED <<abs, poppedCnt, hist>>
    /\ UNCHANGED <<top, trash, data, next, allocated, freed, dropped, role, iter,
                   sum, pushedCnt>>
    /\ Track

\* pop_top, `let n = unsafe { (*p).next };`  (p is the address of a node: the
\* read through a null p would fault)
PopTopNext(t) ==
    /\ ~dropped
    /\ th[t].pc = "pop_top_next"
    /\ th[t].p \in Nodes
    /\ th' = [th EXCEPT ![t] = [@ EXCEPT !.n = PopTopReadNext(th[t].p),
                                         !.pc = "pop_top_cas"]]
    /\ UNCHANGED <<top, trash, data, next, allocated, freed, dropped, role, iter,
                   sum, abs, pushedCnt, poppedCnt, hist>>
    /\ Track

\* mutant: the stamp is read again at the compare-and-swap, only the pointer
\* is the one loaded at the head of the loop
PopTopExpectedNow(v, slot) == Load(slot).stamp

\* `top.compare_exchange((p, v), n)`: the stamp expected is the v loaded with p
PopTopExpected(v, slot) == v

\* pop_top, `top.compare_exchange((p, v), n)`: on success the call returns p, on
\* failure the loop starts over.  A success on `top` is where the pop takes
\* effect on the abstract stack.
PopTopCas(t) ==
    /\ ~dropped
    /\ th[t].pc = "pop_top_cas"
    /\ LET s == SlotOfPopTop(t)
           c == CompareExchange(Get(s), th[t].p,
                                PopTopExpected(th[t].v, Get(s)), th[t].n)
       IN /\ Put(s, c.slot)
          /\ IF c.ok
             THEN IF th[t].op = "push"
                  THEN /\ th' = [th EXCEPT ![t] = [@ EXCEPT !.pc = "do_push_fill",
                                     !.node = th[t].p, !.p = Null, !.v = 0,
                                     !.n = Null]]
                       /\ abs' = abs
                  ELSE /\ th' = [th EXCEPT ![t] = [@ EXCEPT !.pc = "pop_swap",
                                     !.node = th[t].p, !.p = Null, !.v = 0,
                                     !.n = Null, !.absRet = AbsPop(abs).res]]
                       /\ abs' = AbsPop(abs).stk
             ELSE /\ th' = [th EXCEPT ![t] = Retry(th[t], "pop_top")]
                  /\ abs' = abs
    /\ UNCHANGED <<data, next, allocated, freed, dropped, role, iter, sum,
                   pushedCnt, poppedCnt, hist>>
    /\ Track

\* ------------------------------------------------------------- push_top
\* mutant: the node is linked in front of nothing
PushTopLinkNull(p) == Null

\* `(*node).next = p;`: the link written into the node being pushed
PushTopLink(p) == p

\* push_top, `let (p, v) = top.load();`
PushTopLoad(t) ==
    /\ ~dropped
    /\ th[t].pc = "push_top_load"
    /\ LET pv == Load(Get(SlotOfPushTop(t)))
       IN th' = [th EXCEPT ![t] = [@ EXCEPT !.p = pv.ptr, !.v = pv.stamp,
                                            !.pc = "push_top_next"]]
    /\ UNCHANGED <<top, trash, data, next, allocated, freed, dropped, role, iter,
                   sum, abs, pushedCnt, poppedCnt, hist>>
    /\ Track

\* push_top, `(*node).next = p;`
PushTopNext(t) ==
    /\ ~dropped
    /\ th[t].pc = "push_top_next"
    /\ next' = [next EXCEPT ![th[t].node] = PushTopLink(th[t].p)]
    /\ th' = [th EXCEPT ![t] = [@ EXCEPT !.pc = "push_top_cas"]]
    /\ UNCHANGED <<top, trash, data, allocated, freed, dropped, role, iter, sum,
                   abs, pushedCnt, poppedCnt, hist>>
    /\ Track

\* mutant: pop forgets the payload it took
PopResultNone(out) == None

\* `v` at the end of pop: what was swapped out of the node
PopResult(out) == out

\* push_top, `top.compare_exchange((p, v), node)`: on success the loop breaks and
\* the caller (do_push, or pop through put_trash) returns; on failure the loop
\* starts over.  A success on `top` is where the push takes effect on the
\* abstract stack.
PushTopCas(t) ==
    /\ ~dropped
    /\ th[t].pc = "push_top_cas"
    /\ LET s == SlotOfPushTop(t)
           c == CompareExchange(Get(s), th[t].p, th[t].v, th[t].node)
       IN /\ Put(s, c.slot)
          /\ IF c.ok
             THEN IF th[t].op = "push"
                  THEN /\ th' = [th EXCEPT ![t] = Return(th[t], Unit, Unit)]
                       /\ abs' = AbsPush(abs, th[t].raw.x)
                       /\ Log(t, <<"push", th[t].raw>>)
                       /\ UNCHANGED poppedCnt
                  ELSE /\ th' = [th EXCEPT ![t] =
                                   Return(th[t], PopResult(th[t].out), th[t].absRet)]
                       /\ abs' = abs
                       /\ Log(t, <<"pop", PopResult(th[t].out)>>)
                       /\ poppedCnt' =
                            IF PopResult(th[t].out) = None THEN poppedCnt
                            ELSE [poppedCnt EXCEPT ![PopResult(th[t].out).x] = @ + 1]
             ELSE /\ th' = [th EXCEPT ![t] = Retry(th[t], "push_top")]
                  /\ UNCHANGED <<abs, poppedCnt, hist>>
    /\ UNCHANGED <<data, next, allocated, freed, dropped, role, iter, sum,
                   pushedCnt>>
    /\ Track

\* ------------------------------------------------------------- do_push
\* mutant: do_push allocates whatever pick_trash returned
NeedAllocAlways(node) == TRUE

\* `if node.is_null()`
NeedAlloc(node) == node = Null

\* Box::into_raw(Box::new(..)): an address not handed out before
NewAddress == CHOOSE a \in Nodes \ allocated : \A b \in Nodes \ allocated : a <= b

\* mutant: the store is missing, the node keeps the empty payload it has
FillPayloadNone(raw) == None

\* `(*node).data = Some(raw);`: the payload stored into the node
FillPayload(raw) == raw

\* do_push after pick_trash: when pick_trash returned null a node is allocated
\* (`Node { data: None, next: null_mut() }`), then `(*node).data = Some(raw)`.
DoPushFill(t) ==
    /\ ~dropped
    /\ th[t].pc = "do_push_fill"
    /\ IF NeedAlloc(th[t].node)
       THEN /\ allocated # Nodes
            /\ allocated' = allocated \cup {NewAddress}
            /\ data' = [data EXCEPT ![NewAddress] = FillPayload(th[t].raw)]
            /\ next' = [next EXCEPT ![NewAddress] = Null]
            /\ th' = [th EXCEPT ![t] = [@ EXCEPT !.node = NewAddress,
                                !.fresh = TRUE, !.pc = "push_top_load"]]
       ELSE /\ data' = [data EXCEPT ![th[t].node] = FillPayload(th[t].raw)]
            /\ th' = [th EXCEPT ![t] = [@ EXCEPT !.pc = "push_top_load"]]
            /\ UNCHANGED <<allocated, next>>
    /\ UNCHANGED <<top, trash, freed, dropped, role, iter, sum, abs, pushedCnt,
                   poppedCnt, hist>>
    /\ Track

\* mutant: the payload is copied out of the node, not moved
SwapDataCopy(d) == [out |-> d, left |-> d]

\* ----------------------------------------------------------------- pop
\* `let mut v = None; std::mem::swap(&mut v, &mut (*node).data);`
SwapData(d) == [out |-> d, left |-> None]

\* pop, the swap that moves the payload out of the unlinked node
PopSwap(t) ==
    /\ ~dropped
    /\ th[t].pc = "pop_swap"
    /\ data' = [data EXCEPT ![th[t].node] = SwapData(data[th[t].node]).left]
    /\ th' = [th EXCEPT ![t] = [@ EXCEPT !.out = SwapData(data[th[t].node]).out,
                                         !.pc = "push_top_load"]]
    /\ UNCHANGED <<top, trash, next, allocated, freed, dropped, role, iter, sum,
                   abs, pushedCnt, poppedCnt, hist>>
    /\ Track

\* --------------------------------------------------------------- empty
\* mutant: empty looks at the stamp instead of the pointer
EmptyResultStamp(slot) == Load(slot).stamp = 0

\* `self.top.load().0.is_null()`
EmptyResult(slot) == Load(slot).ptr = Null

EmptyLoad(t) ==
    /\ ~dropped
    /\ th[t].pc = "empty_load"
    /\ th' = [th EXCEPT ![t] = Return(th[t], Bool(EmptyResult(top)),
                                      Bool(abs = <<>>))]
    /\ Log(t, <<"empty", Bool(EmptyResult(top))>>)
    /\ UNCHANGED <<top, trash, data, next, allocated, freed, dropped, role, iter,
                   sum, abs, pushedCnt, poppedCnt>>
    /\ Track

\* ---------------------------------------------------------------- calls
\* (the caller's own counter iter is left to the caller)
\* push(raw) -> do_push(raw) -> pick_trash() -> pop_top(&self.trash)
CallPush(t, x) ==
    /\ ~dropped
    /\ th[t].pc = "idle"
    /\ th' = [th EXCEPT ![t] = Enter(th[t], "push", "pop_top_load", Some(x))]
    /\ pushedCnt' = [pushedCnt EXCEPT ![x] = @ + 1]
    /\ UNCHANGED <<top, trash, data, next, allocated, freed, dropped, role, sum,
                   abs, poppedCnt, hist>>
    /\ Track

\* pop() -> pop_top(&self.top)
CallPop(t) ==
    /\ ~dropped
    /\ th[t].pc = "idle"
    /\ th' = [th EXCEPT ![t] = Enter(th[t], "pop", "pop_top_load", None)]
    /\ UNCHANGED <<top, trash, data, next, allocated, freed, dropped, role, sum,
                   abs, pushedCnt, poppedCnt, hist>>
    /\ Track

\* empty()
CallEmpty(t) ==
    /\ ~dropped
    /\ th[t].pc = "idle"
    /\ th' = [th EXCEPT ![t] = Enter(th[t], "empty", "empty_load", None)]
    /\ UNCHANGED <<top, trash, data, next, allocated, freed, dropped, role, sum,
                   abs, pushedCnt, poppedCnt, hist>>
    /\ Track

\* ---------------------------------------------------------------- Drop
\* release: `while !p.is_null() { let d = p; p = (*p).next; drop(Box::from_raw(d)); }`
\* fr counts the releases of every address; the walk is cut after fuel nodes.
RECURSIVE Release(_, _, _)
Release(p, fr, fuel) ==
    IF p = Null \/ fuel = 0 THEN fr
    ELSE Release(next[p], [fr EXCEPT ![p] = @ + 1], fuel - 1)

\* mutant: drop forgets the trash chain
DropTopOnly ==
    /\ ~dropped
    /\ AllIdle
    /\ dropped' = TRUE
    /\ freed' = Release(Load(top).ptr, freed, MaxNodes + 1)
    /\ UNCHANGED <<top, trash, data, next, allocated, th, role, iter, sum, abs,
                   pushedCnt, poppedCnt, hist>>
    /\ Track

\* Drop::drop(&mut self): release(top), then release(trash).  `&mut self` means
\* that no call is in flight and none will follow.
Drop ==
    /\ ~dropped
    /\ AllIdle
    /\ dropped' = TRUE
    /\ freed' = Release(Load(trash).ptr,
                        Release(Load(top).ptr, freed, MaxNodes + 1), MaxNodes + 1)
    /\ UNCHANGED <<top, trash, data, next, allocated, th, role, iter, sum, abs,
                   pushedCnt, poppedCnt, hist>>
    /\ Track

\* -------------------------------------------------------------- clients
\* The client threads make calls of their choice, MaxCalls altogether; the solo
\* thread makes SoloOps.
RECURSIVE CallsMade(_)
CallsMade(n) == IF n = 0 THEN 0 ELSE iter[n] + CallsMade(n - 1)

IsClient(t) ==
    IF role[t] = "solo" THEN iter[t] < SoloOps
    ELSE role[t] = "client" /\ CallsMade(NumThreads) < MaxCalls

\* What a client pushes.  The stack never looks at a payload (T is a type
\* parameter), so every push of the client threads passes a value not passed
\* before, which tells a pop's value apart from every other push; the solo
\* thread picks any of 1..SoloVal, repeats included.
ClientValues(t) ==
    IF role[t] = "solo" THEN 1..SoloVal
    ELSE {1 + Cardinality({x \in Payloads : pushedCnt[x] > 0})}

ClientPush(t) ==
    /\ IsClient(t)
    /\ \E x \in ClientValues(t) : CallPush(t, x)
    /\ iter' = [iter EXCEPT ![t] = @ + 1]

ClientPop(t) ==
    /\ IsClient(t)
    /\ CallPop(t)
    /\ iter' = [iter EXCEPT ![t] = @ + 1]

ClientEmpty(t) ==
    /\ IsClient(t)
    /\ CallEmpty(t)
    /\ iter' = [iter EXCEPT ![t] = @ + 1]

\* ------------------------------------------------------- scripted threads
\* Three threads with a fixed list of calls each, five calls altogether: the
\* shortest run in which a node is unlinked, recycled and linked again in
\* front of another successor while a pop still holds its address.
Script(t) ==
    CASE t = 1 -> <<"push", "pop">>
      [] t = 2 -> <<"pop", "push">>
      [] t = 3 -> <<"push">>
      [] OTHER -> <<>>

ScriptCall(t) ==
    /\ role[t] = "script"
    /\ iter[t] < Len(Script(t))
    /\ IF Script(t)[iter[t] + 1] = "push"
       THEN \E x \in ClientValues(t) : CallPush(t, x)
       ELSE CallPop(t)
    /\ iter' = [iter EXCEPT ![t] = @ + 1]

\* ---------------------------------------------- tests::multi_thread_sum
\* 49500 in the test: 10 producers, each pushing 0..99
ExpectedSum == StressN * ((StressK * (StressK - 1)) \div 2)

\* mutant: the producers count down
ProducerValueDown(i) == (StressK - 1) - i

\* `for i in 0..100 { stack.push(i); }`: the value of the i-th push
ProducerValue(i) == i

\* `for i in 0..100 { stack.push(i); }`
ProducerPush(t) ==
    /\ role[t] = "producer"
    /\ iter[t] < StressK
    /\ CallPush(t, ProducerValue(iter[t]))
    /\ iter' = [iter EXCEPT ![t] = @ + 1]

ProducerDone(t) == th[t].pc = "idle" /\ iter[t] = StressK

\* `loop { if let Some(i) = stack.pop() {`: the call
ConsumerPop(t) ==
    /\ role[t] = "consumer"
    /\ th[t].op = "none"
    /\ CallPop(t)
    /\ UNCHANGED iter

\* `sum += i; } else if sum == 49500 { break; } }`: what the loop does with the
\* result of the pop
ConsumerResult(t) ==
    /\ role[t] = "consumer"
    /\ th[t].pc = "idle"
    /\ th[t].op = "pop"
    /\ IF th[t].ret # None
       THEN /\ sum' = sum + th[t].ret.x
            /\ th' = [th EXCEPT ![t] = [@ EXCEPT !.op = "none"]]
       ELSE /\ sum' = sum
            /\ th' = [th EXCEPT ![t] =
                        IF sum = ExpectedSum THEN [@ EXCEPT !.pc = "done"]
                        ELSE [@ EXCEPT !.op = "none"]]
    /\ UNCHANGED <<top, trash, data, next, allocated, freed, dropped, role, iter,
                   abs, pushedCnt, poppedCnt, hist>>
    /\ Track

\* the joins, then `assert!(stack.empty());` on the main thread
MainAssert(t) ==
    /\ role[t] = "main"
    /\ th[t].op = "none"
    /\ \A q \in Producers : ProducerDone(q)
    /\ th[Consumer].pc = "done"
    /\ CallEmpty(t)
    /\ UNCHANGED iter

\* ------------------------------------------------------- specifications
\* ConcurrentStack::new() and nothing else yet
InitStack ==
    /\ top = DefaultSlot
    /\ trash = DefaultSlot
    /\ data = [a \in Nodes |-> None]
    /\ next = [a \in Nodes |-> Null]
    /\ allocated = {}
    /\ freed = [a \in Nodes |-> 0]
    /\ dropped = FALSE
    /\ sum = 0
    /\ abs = <<>>
    /\ pushedCnt = [x \in Payloads |-> 0]
    /\ poppedCnt = [x \in Payloads |-> 0]
    /\ peakLive = 0
    /\ peakInUse = 0
    /\ hist = <<>>
    /\ linked = [a \in Nodes |-> None]
    /\ quiet = 0

Init ==
    /\ InitStack
    /\ meter = FALSE
    /\ th = [t \in Threads |-> ThreadInit]
    /\ role = [t \in Threads |-> "client"]
    /\ iter = [t \in Threads |-> 0]

InitSolo ==
    /\ InitStack
    /\ meter = FALSE
    /\ th = [t \in {1} |-> ThreadInit]
    /\ role = [t \in {1} |-> "solo"]
    /\ iter = [t \in {1} |-> 0]

InitStress ==
    /\ InitStack
    /\ meter = FALSE
    /\ th = [t \in StressThreads |-> ThreadInit]
    /\ role = [t \in StressThreads |->
                 IF t \in Producers THEN "producer"
                 ELSE IF t = Consumer THEN "consumer" ELSE "main"]
    /\ iter = [t \in StressThreads |-> 0]

\* one step of thread t inside a call
Step(t) ==
    \/ PopTopLoad(t)
    \/ PopTopNext(t)
    \/ PopTopCas(t)
    \/ DoPushFill(t)
    \/ PushTopLoad(t)
    \/ PushTopNext(t)
    \/ PushTopCas(t)
    \/ PopSwap(t)
    \/ EmptyLoad(t)

Client(t) == ClientPush(t) \/ ClientPop(t) \/ ClientEmpty(t)

Next ==
    \/ \E t \in Threads : Client(t) \/ Step(t)
    \/ Drop

NextSolo ==
    \/ \E t \in {1} : Client(t) \/ Step(t)
    \/ Drop

StressDriver(t) ==
    ProducerPush(t) \/ ConsumerPop(t) \/ ConsumerResult(t) \/ MainAssert(t)

NextStress == \E t \in StressThreads : StressDriver(t) \/ Step(t)

\* any number of threads calling push, pop and empty, then the drop
Spec == Init /\ [][Next]_vars

\* the scripted threads: calls of push and pop only
InitAba ==
    /\ InitStack
    /\ meter = FALSE
    /\ th = [t \in Threads |-> ThreadInit]
    /\ role = [t \in Threads |-> "script"]
    /\ iter = [t \in Threads |-> 0]

StepAba(t) ==
    \/ PopTopLoad(t) \/ PopTopNext(t) \/ PopTopCas(t)
    \/ DoPushFill(t)
    \/ PushTopLoad(t) \/ PushTopNext(t) \/ PushTopCas(t)
    \/ PopSwap(t)

NextAba == \E t \in Threads : ScriptCall(t) \/ StepAba(t)

SpecAba == InitAba /\ [][NextAba]_vars

\* the scripted threads under fair scheduling of the threads inside a call
SpecAbaFair == SpecAba /\ \A t \in Threads : WF_vars(StepAba(t))

\* the scripted threads, with the steps since the last return counted
InitMeter ==
    /\ InitStack
    /\ meter = TRUE
    /\ th = [t \in Threads |-> ThreadInit]
    /\ role = [t \in Threads |-> "script"]
    /\ iter = [t \in Threads |-> 0]

SpecMeter == InitMeter /\ [][NextAba]_vars

\* one thread
SpecSolo == InitSolo /\ [][NextSolo]_vars

\* tests::multi_thread_sum
SpecStress == InitStress /\ [][NextStress]_vars

\* the same under fair scheduling of the operating system's threads
SpecStressFair ==
    SpecStress /\ \A t \in StressThreads : WF_vars(StressDriver(t) \/ Step(t))

\* =================================================================== claims
\* payloads of the top chain, head first
TopValues == [i \in 1..Len(TopChain) |-> data[TopChain[i]]]

CountIn(seq, x) == Cardinality({i \in 1..Len(seq) : seq[i] = x})

\* a step of Next taken by thread t (only t's own steps change th[t])
StepOf(t) == th'[t] # th[t]

\* C1: whenever no call is in flight, every value has been passed to push
\* exactly as often as it has been returned by pop or still sits in the top
\* chain; so once the chain is empty the multiset popped is the multiset pushed.
C1_NoLossNoDup ==
    AllIdle =>
        \A x \in Payloads :
            /\ pushedCnt[x] = poppedCnt[x] + CountIn(TopValues, Some(x))
            /\ top.ptr = Null => poppedCnt[x] = pushedCnt[x]

\* C1 witness: two values were pushed, each thread popped the other one's, and
\* the stack is empty again.
C1_Witness ==
    /\ AllIdle
    /\ top.ptr = Null
    /\ pushedCnt[1] = 1 /\ pushedCnt[2] = 1
    /\ poppedCnt[1] = 1 /\ poppedCnt[2] = 1
    /\ th[1].ret = Some(2) /\ th[2].ret = Some(1)
    /\ Cardinality(allocated) = 2

\* C2: every call that has returned returned what the abstract sequential stack
\* returned when the call's effect was applied to it at its linearization point
\* (the successful compare_exchange on top, or the load that saw a null top).
C2_Linearizable ==
    \A t \in DOMAIN th : th[t].ret # Pending => th[t].ret = th[t].absRet

\* C2 witness: a pop has returned a value while another thread is about to try
\* its compare_exchange on top with a stamp that is out of date.
C2_Witness ==
    \E t, u \in Threads :
        /\ t # u
        /\ th[t].op = "pop" /\ th[t].pc = "idle" /\ th[t].ret \notin {None, Pending}
        /\ \/ th[u].op = "pop" /\ th[u].pc = "pop_top_cas"
           \/ th[u].op = "push" /\ th[u].pc = "push_top_cas"
        /\ th[u].v < top.stamp
        /\ top.stamp >= 3

\* the calls of hist replayed on a sequential stack stk: every result is the
\* one the sequential stack gives
RECURSIVE ReplayOK(_, _)
ReplayOK(h, stk) ==
    IF h = <<>> THEN TRUE
    ELSE LET e == Head(h)
         IN IF e[1] = "push" THEN ReplayOK(Tail(h), <<e[2]>> \o stk)
            ELSE IF e[1] = "pop"
            THEN IF stk = <<>> THEN e[2] = None /\ ReplayOK(Tail(h), stk)
                 ELSE e[2] = Head(stk) /\ ReplayOK(Tail(h), Tail(stk))
            ELSE e[2] = Bool(stk = <<>>) /\ ReplayOK(Tail(h), stk)

\* C3: with one thread, every pop returns the most recently pushed value that
\* has not been popped yet (None when there is none).
C3_SoloLifo == ReplayOK(hist, <<>>)

\* C3 witness: push 1, 2, 3, then three pops returning 3, 2, 1.
C3_Witness ==
    hist = << <<"push", Some(1)>>, <<"push", Some(2)>>, <<"push", Some(3)>>,
              <<"pop", Some(3)>>, <<"pop", Some(2)>>, <<"pop", Some(1)>> >>

\* C4: the step of a pop whose load of top sees a null pointer returns None at
\* once and changes neither slot nor any node.
C4_PopEmpty ==
    [][\A t \in DOMAIN th :
          (th[t].op = "pop" /\ th[t].pc = "pop_top_load" /\ top.ptr = Null
             /\ StepOf(t))
          => /\ th'[t].pc = "idle"
             /\ th'[t].ret = None
             /\ top' = top /\ trash' = trash
             /\ data' = data /\ next' = next]_vars

\* C4 witness: a pop returned None on a stack that had been used before.
C4_Witness ==
    \E t \in DOMAIN th :
        /\ th[t].op = "pop" /\ th[t].pc = "idle" /\ th[t].ret = None
        /\ top.ptr = Null /\ top.stamp > 0 /\ trash.ptr # Null

\* C5: the step of empty returns whether the pointer of top is null at that
\* instant, whatever the stamp, and changes neither slot nor any node.
C5_EmptyReadsPointer ==
    [][\A t \in DOMAIN th :
          (th[t].pc = "empty_load" /\ StepOf(t))
          => /\ th'[t].ret = Bool(top.ptr = Null)
             /\ th'[t].pc = "idle"
             /\ top' = top /\ trash' = trash
             /\ data' = data /\ next' = next /\ allocated' = allocated]_vars

\* C5 witness: empty returned true on a stack whose top stamp has advanced.
C5_Witness ==
    \E t \in DOMAIN th :
        /\ th[t].op = "empty" /\ th[t].pc = "idle" /\ th[t].ret = Bool(TRUE)
        /\ top.ptr = Null /\ top.stamp > 0

\* C6: in multi_thread_sum, once every producer has pushed 0..StressK-1 and the
\* consumer has left its loop, the closing empty() returns true and no node is
\* left in the top chain.
C6_StressEndsEmpty ==
    th[Main].ret # Pending => th[Main].ret = Bool(TRUE) /\ TopChain = <<>>

\* C6 witness: the closing assert ran after the consumer summed up every push,
\* the zeros included.
C6_Witness ==
    /\ th[Main].ret = Bool(TRUE)
    /\ sum = ExpectedSum
    /\ poppedCnt[0] = StressN
    /\ \A q \in Producers : ProducerDone(q)

StressAllDone ==
    /\ \A q \in Producers : ProducerDone(q)
    /\ th[Consumer].pc = "done"

\* C7: in multi_thread_sum under fair scheduling, eventually every producer has
\* finished its pushes and the consumer has left its loop with the expected sum.
C7_StressTerminates == <>(StressAllDone /\ sum = ExpectedSum)

\* C7 witness: all producers done, the consumer out of its loop.
C7_Witness == StressAllDone /\ sum = ExpectedSum /\ top.stamp = 2 * (StressN * StressK)

\* C8 as stated: at rest, the nodes allocated are as many as the most nodes that
\* were in the top chain at once.
C8_AllocsEqualPeakLive == AllIdle => Cardinality(allocated) = peakLive

\* C8 amended: the nodes allocated are never fewer than the most nodes that
\* were in the top chain at once, and at rest they are as many as the most nodes
\* that were in use at once, a node in use being one in the top chain or one a
\* thread inside push or pop holds detached (or is about to allocate).
C8_AllocsEqualPeakInUse ==
    /\ peakLive <= Cardinality(allocated)
    /\ AllIdle => Cardinality(allocated) = peakInUse

\* C8 witness: at rest, two nodes allocated although the top chain never held
\* more than one.
C8_Witness ==
    /\ AllIdle
    /\ Cardinality(allocated) = 2
    /\ peakLive = 1
    /\ peakInUse = 2

\* C9: the do_push step after pick_trash allocates exactly when the last load
\* of trash by pick_trash saw a null pointer; otherwise it stores the payload
\* into the node that load saw and allocates nothing.  Nothing else allocates.
C9_AllocOnlyOnEmptyTrash ==
    [][/\ \A t \in DOMAIN th :
             (th[t].pc = "do_push_fill" /\ StepOf(t))
             => IF th[t].seen = Null
                THEN /\ Cardinality(allocated') = Cardinality(allocated) + 1
                     /\ th'[t].node \in allocated' \ allocated
                ELSE /\ allocated' = allocated
                     /\ th'[t].node = th[t].seen
                     /\ data'[th[t].seen] = th[t].raw
       /\ allocated' # allocated
            => \E t \in DOMAIN th :
                  th[t].pc = "do_push_fill" /\ StepOf(t) /\ th[t].seen = Null]_vars

\* C9 witness: a push is linking the node it took from trash, the only node
\* ever allocated, with its payload stored in it.
C9_Witness ==
    \E t \in DOMAIN th :
        /\ th[t].op = "push" /\ th[t].pc = "push_top_cas"
        /\ th[t].seen # Null /\ th[t].node = th[t].seen /\ ~th[t].fresh
        /\ data[th[t].node] = th[t].raw
        /\ Cardinality(allocated) = 1

\* C10: after the drop, every node ever allocated has been released exactly
\* once, and nothing else has been released.
C10_DropReleasesAllOnce ==
    dropped => \A a \in Nodes : freed[a] = IF a \in allocated THEN 1 ELSE 0

\* C10 witness: the drop ran with nodes in both chains.
C10_Witness ==
    /\ dropped
    /\ Len(TopChain) >= 2
    /\ Len(TrashChain) >= 1
    /\ Cardinality(allocated) = 3

\* ---------------------------------------------------------------- ownership
\* the threads that hold node a detached, between their unlink (or allocation)
\* and their link
Holders(a) == {t \in DOMAIN th : th[t].node = a}

\* C13: until the stack is dropped, every allocated node is in exactly one of
\* three places: in the top chain, and then its payload is present; in the
\* trash chain, and then its payload is absent; or in neither chain and held
\* by exactly one thread, which is inside push or pop.  No node is in both
\* chains, none is held by two threads, and neither chain holds a node twice.
C13_NodeOwnership ==
    ~dropped =>
      /\ \A a \in allocated :
            LET inTop   == a \in Range(TopChain)
                inTrash == a \in Range(TrashChain)
            IN /\ inTop => ~inTrash /\ Holders(a) = {} /\ data[a] # None
               /\ inTrash => Holders(a) = {} /\ data[a] = None
               /\ ~inTop /\ ~inTrash =>
                     /\ Cardinality(Holders(a)) = 1
                     /\ \A t \in Holders(a) :
                           th[t].op \in {"push", "pop"} /\ th[t].pc # "idle"
      /\ Range(TopChain) \cup Range(TrashChain) \cup InFlight(th) \subseteq allocated
      /\ Cardinality(Range(TopChain)) = Len(TopChain)
      /\ Cardinality(Range(TrashChain)) = Len(TrashChain)

\* C13 witness: a pop holds the node it unlinked while another thread still
\* has a copy of that node's address from its own load, and the top chain is
\* not empty.
C13_Witness ==
    \E t, u \in DOMAIN th :
        /\ t # u
        /\ th[t].op = "pop" /\ th[t].node \in Nodes
        /\ th[u].p = th[t].node
        /\ th[t].node \notin Range(TopChain) \cup Range(TrashChain)
        /\ TopChain # <<>>

\* ------------------------------------------------------------------ chains
\* following the links from head p visits no node twice and ends at null
ProperList(p) ==
    LET c == ChainOf(next, p, MaxNodes + 1)
    IN /\ Len(c) <= Cardinality(allocated)
       /\ Cardinality(Range(c)) = Len(c)
       /\ c # <<>> => next[c[Len(c)]] = Null

\* C14: in every state, following next-links from the head of top and from the
\* head of trash visits each node at most once and ends at a null link.
C14_ChainsAcyclic == ProperList(top.ptr) /\ ProperList(trash.ptr)

\* C14 witness: a push has written the old head of top into the next-link of
\* the node it holds, and that old head has meanwhile been popped and moved to
\* the trash chain: a link from a node in flight into the other chain.
C14_Witness ==
    \E t \in DOMAIN th :
        /\ th[t].op = "push" /\ th[t].pc = "push_top_cas"
        /\ next[th[t].node] \in Range(TrashChain)
        /\ next[th[t].node] # top.ptr

\* ------------------------------------------------------------------ stamps
\* the threads whose step is a compare-and-swap on slot s
CasOn(s) ==
    {t \in DOMAIN th :
        /\ StepOf(t)
        /\ \/ th[t].pc = "pop_top_cas" /\ SlotOfPopTop(t) = s
           \/ th[t].pc = "push_top_cas" /\ SlotOfPushTop(t) = s}

\* what a compare-and-swap of thread t offers as the new pointer
CasNew(t) == IF th[t].pc = "pop_top_cas" THEN th[t].n ELSE th[t].node

\* One step as seen from slot s, old being its value before and new after: the
\* slot changes only by a compare-and-swap that found the pair it expected, the
\* stamp then goes up by one (the 64-bit stamp does not wrap within these
\* runs); a compare-and-swap that found another pair changes nothing and sends
\* its thread back to the load.
SlotStep(s, old, new) ==
    /\ new # old => new.stamp = old.stamp + 1 /\ CasOn(s) # {}
    /\ new.stamp >= old.stamp
    /\ \A t \in CasOn(s) :
          IF old.ptr = th[t].p /\ old.stamp = th[t].v
          THEN new = [ptr |-> CasNew(t), stamp |-> old.stamp + 1]
          ELSE /\ new = old
               /\ th'[t].pc \in {"pop_top_load", "push_top_load"}

\* C15: for each of top and trash, every successful compare-and-swap advances
\* the slot's stamp and every failed one leaves pointer and stamp as they
\* were, and nothing else touches the slot; the stamp therefore never comes
\* back to an earlier value, so two states of a slot with an update in between
\* differ in their stamps also when they hold the same address.
C15_StampsAdvance ==
    [][SlotStep("top", top, top') /\ SlotStep("trash", trash, trash')]_vars

\* C15 witness: top holds the address a thread loaded earlier, with a later
\* stamp, and that thread stands at its compare-and-swap on top.
C15_Witness ==
    \E t \in DOMAIN th :
        /\ th[t].op = "pop" /\ th[t].pc = "pop_top_cas"
        /\ th[t].p \in Nodes
        /\ top.ptr = th[t].p
        /\ top.stamp >= th[t].v + 2

\* --------------------------------------------------------------------- ABA
\* the compare-and-swap of pop_top by thread t succeeds with this step
Unlinks(t) ==
    /\ StepOf(t)
    /\ th[t].pc = "pop_top_cas"
    /\ th'[t].pc \in {"do_push_fill", "pop_swap"}

\* the compare-and-swap of pop_top by thread t fails with this step
UnlinkFails(t) ==
    /\ StepOf(t)
    /\ th[t].pc = "pop_top_cas"
    /\ th'[t].pc = "pop_top_load"

\* thread t is about to try the compare-and-swap of pop_top on a slot that
\* holds the address t loaded, but has been updated since that load
StaleAtCas(t) ==
    /\ th[t].pc = "pop_top_cas"
    /\ Get(SlotOfPopTop(t)).ptr = th[t].p
    /\ Get(SlotOfPopTop(t)).stamp # th[t].v

\* C16: when the slot has been updated between a thread's load and its
\* compare-and-swap in pop_top, the compare-and-swap fails, leaves the slot as
\* it is and the thread starts over, also when the slot holds the loaded
\* address again; and whenever the compare-and-swap of pop_top succeeds, the
\* removed node is the head and the link installed as the new head is the
\* next-link that node has at that instant.
C16_AbaSafeUnlink ==
    [][\A t \in DOMAIN th :
          LET s == SlotOfPopTop(t)
          IN /\ StaleAtCas(t) /\ StepOf(t)
                  => UnlinkFails(t) /\ top' = top /\ trash' = trash
             /\ Unlinks(t)
                  => /\ Get(s).ptr = th[t].p
                     /\ th[t].n = next[th[t].p]
                     /\ (IF s = "top" THEN top' ELSE trash').ptr = next[th[t].p]
                     /\ th'[t].node = th[t].p]_vars

\* C16 witness: a pop stands at its compare-and-swap on top; the node it loaded
\* has since been popped, recycled by a push and linked again, so top holds the
\* same address under a later stamp, and the link the pop read is no longer
\* that node's successor.
C16_Witness ==
    \E t \in DOMAIN th :
        /\ th[t].op = "pop"
        /\ StaleAtCas(t)
        /\ th[t].n # next[th[t].p]
        /\ next[th[t].p] \in Range(TopChain)

\* -------------------------------------------------------------- visibility
\* the link of a push by thread t succeeds with this step
LinksTop(t) ==
    /\ StepOf(t)
    /\ th[t].pc = "push_top_cas" /\ th[t].op = "push"
    /\ th'[t].pc = "idle"

\* the threads inside a push of payload d whose link has not succeeded yet
PushingStill(d) ==
    {u \in DOMAIN th : th[u].op = "push" /\ th[u].pc # "idle" /\ th[u].raw = d}

\* C17 (every push of the client threads passes a value of its own): when the
\* link of a push succeeds, the payload is already in the node; when a pop
\* unlinks a node from top, the payload it finds is the one of the push that
\* last linked that node, and no push of that payload is still on its way to
\* its link; and a payload no link has published is neither in the top chain
\* nor with any pop.
C17_VisibleAfterLink ==
    [][/\ \A t \in DOMAIN th :
             /\ LinksTop(t) => data[th[t].node] = th[t].raw /\ th[t].raw # None
             /\ Unlinks(t) /\ th[t].op = "pop"
                  => /\ data[th[t].p] # None
                     /\ linked[th[t].p] = data[th[t].p]
                     /\ PushingStill(data[th[t].p]) = {}
       /\ \A t \in DOMAIN th :
             th[t].op = "push" /\ th[t].pc # "idle"
               => /\ \A a \in Range(TopChain) : data[a] # th[t].raw
                  /\ \A u \in DOMAIN th :
                        th[u].op = "pop" =>
                          /\ th[u].out # th[t].raw
                          /\ th[u].ret # th[t].raw
                          /\ th[u].node \in Nodes => data[th[u].node] # th[t].raw]_vars

\* C17 witness: a pop has unlinked a node that holds a payload while a push
\* has stored its own payload and stands at its link on top.
C17_Witness ==
    \E t, u \in DOMAIN th :
        /\ th[t].op = "pop" /\ th[t].pc = "pop_swap"
        /\ data[th[t].node] # None
        /\ th[u].op = "push" /\ th[u].pc = "push_top_cas"
        /\ data[th[u].node] = th[u].raw
        /\ top.stamp # th[u].v

\* ------------------------------------------------------------- pop's value
\* the link into trash of a pop by thread t succeeds with this step, and the
\* pop returns
LinksTrash(t) ==
    /\ StepOf(t)
    /\ th[t].pc = "push_top_cas" /\ th[t].op = "pop"
    /\ th'[t].pc = "idle"

\* C18: whenever pop unlinks a node from top, that node holds the payload
\* stored by the push that last linked it; whenever pop links the node into
\* trash, the node's payload is empty, and what pop returns is that payload of
\* the last link, never None.
C18_PopReturnsLinkedValue ==
    [][\A t \in DOMAIN th :
          /\ Unlinks(t) /\ th[t].op = "pop"
               => /\ th[t].p \in Nodes
                  /\ linked[th[t].p] # None
                  /\ data[th[t].p] = linked[th[t].p]
          /\ LinksTrash(t)
               => /\ data[th[t].node] = None
                  /\ linked[th[t].node] # None
                  /\ th'[t].ret = linked[th[t].node]
                  /\ trash'.ptr = th[t].node]_vars

\* C18 witness: a pop has moved the payload out of the node it unlinked, the
\* node is empty, and the pop stands at the compare-and-swap that links the
\* node into trash, with trash as the pop loaded it.
C18_Witness ==
    \E t \in DOMAIN th :
        /\ th[t].op = "pop" /\ th[t].pc = "push_top_cas"
        /\ th[t].out # None /\ th[t].out = linked[th[t].node]
        /\ data[th[t].node] = None
        /\ trash = [ptr |-> th[t].p, stamp |-> th[t].v]
        /\ trash.ptr # Null

\* ------------------------------------------------------------------ writes
\* the node whose field thread t writes with this step, Null when the step
\* writes none: the next-link write of push_top, the payload store of do_push
\* (into a node of trash or into the node just allocated), the swap of pop
WriteTarget(t) ==
    IF ~StepOf(t) THEN Null
    ELSE IF th[t].pc \in {"push_top_next", "pop_swap"} THEN th[t].node
    ELSE IF th[t].pc = "do_push_fill" THEN th'[t].node
    ELSE Null

\* C19: every step that writes the payload or the next-link of a node is a
\* step of the one thread that holds that node; the node is then in neither
\* chain, before and after the write, and no field of any node changes in any
\* other way.
C19_WritesByHolderOnly ==
    [][/\ \A t \in DOMAIN th :
             WriteTarget(t) # Null =>
                LET a == WriteTarget(t)
                IN /\ a \notin Range(TopChain) \cup Range(TrashChain)
                   /\ a \notin Range(TopChain)' \cup Range(TrashChain)'
                   /\ Holders(a) \subseteq {t}
                   /\ {u \in DOMAIN th : th'[u].node = a} = {t}
                   /\ Holders(a) = {} => a \notin allocated
       /\ \A a \in Nodes :
             data'[a] # data[a] \/ next'[a] # next[a]
               => \E t \in DOMAIN th : WriteTarget(t) = a]_vars

\* C19 witness: a pop is about to write the next-link of the node it holds
\* while another thread, which loaded that node's address when it was the
\* head, is about to read the same next-link.
C19_Witness ==
    \E t, u \in DOMAIN th :
        /\ t # u
        /\ th[t].pc = "push_top_next" /\ th[t].node \in Nodes
        /\ th[u].pc = "pop_top_next" /\ th[u].p = th[t].node

\* ------------------------------------------------------------ one thread
\* the completed calls of the solo thread that were a push, and those that
\* were a pop returning a value
SoloPushes == Cardinality({i \in 1..Len(hist) : hist[i][1] = "push"})
SoloValuePops ==
    Cardinality({i \in 1..Len(hist) : hist[i][1] = "pop" /\ hist[i][2] # None})

\* C20: with one thread, between any two calls the nodes allocated so far are
\* as many as the most values the stack has held at once, every allocated node
\* is in the top chain or in the trash chain and in one of them only, and the
\* top chain is as long as the pushes made minus the pops that returned a
\* value.
C20_SoloNodeCount ==
    AllIdle /\ ~dropped =>
      /\ Cardinality(allocated) = peakLive
      /\ Range(TopChain) \cup Range(TrashChain) = allocated
      /\ Len(TopChain) + Len(TrashChain) = Cardinality(allocated)
      /\ Len(TopChain) = SoloPushes - SoloValuePops
      /\ Len(TopChain) = Len(abs)

\* C20 witness: after two pushes, two pops and a push that took its node from
\* trash, one node is in each chain and two were allocated.
C20_Witness ==
    /\ AllIdle /\ ~dropped
    /\ SoloPushes = 3 /\ SoloValuePops = 2
    /\ peakLive = 2 /\ Cardinality(allocated) = 2
    /\ Len(TopChain) = 1 /\ Len(TrashChain) = 1

\* ------------------------------------------------------------ lock-freedom
\* the compare-and-swap of push_top by thread t fails with this step
LinkFails(t) ==
    /\ StepOf(t)
    /\ th[t].pc = "push_top_cas"
    /\ th'[t].pc = "push_top_load"

\* The most steps inside push or pop between two returns.  Between two returns
\* every thread is inside one call, which takes six steps before the one that
\* returns (three for pop_top, the store or the swap, two of push_top) and
\* three more for every compare-and-swap of its own that fails; every failure
\* is owed to a different successful compare-and-swap of another thread, of
\* which there are at most one per other thread between two returns (a second
\* one would be a return) and one from before.
ProgressBound == NumThreads * (6 + 3 * NumThreads)

\* C11: a compare-and-swap of push_top or pop_top fails only when the slot's
\* stamp has moved on since the thread's load, that is, when a compare-and-swap
\* of another thread on that slot succeeded in between; and the steps that
\* threads take inside push or pop without any call returning never number
\* more than ProgressBound, whatever the schedule.
C11_LockFree ==
    /\ [][\A t \in DOMAIN th :
            /\ UnlinkFails(t) => Get(SlotOfPopTop(t)).stamp > th[t].v
            /\ LinkFails(t) => Get(SlotOfPushTop(t)).stamp > th[t].v]_vars
    /\ [](quiet <= ProgressBound)

\* C11 witness: fourteen steps inside push and pop since the last return, and
\* a thread whose compare-and-swap is about to fail because another thread's
\* succeeded after its load.
C11_Witness ==
    /\ quiet >= 14
    /\ \E t \in DOMAIN th :
          /\ th[t].pc = "push_top_cas"
          /\ Get(SlotOfPushTop(t)).stamp > th[t].v

\* ------------------------------------------------- deadlock and termination
\* thread t is inside a call of push or pop
InCall(t) == th[t].op \in {"push", "pop"} /\ th[t].pc \notin {"idle", "done"}

\* C12: in every state, each thread that is inside push or pop can take its
\* next step, whatever the other threads do or have done; and when the threads
\* make the finitely many calls of their scripts and each thread inside a call
\* keeps being scheduled, every call of push or pop returns.
C12_NoDeadlockAndTermination ==
    /\ [](\A t \in Threads : InCall(t) => ENABLED StepAba(t))
    /\ \A t \in Threads : InCall(t) ~> (th[t].pc = "idle")

\* C12 witness: a pop that has unlinked its node stands at a compare-and-swap
\* on trash that will fail, because another pop's succeeded after its load: it
\* has to go round again before it returns.
C12_Witness ==
    /\ trash.ptr # Null
    /\ \E t \in Threads :
          /\ InCall(t) /\ th[t].op = "pop" /\ th[t].pc = "push_top_cas"
          /\ trash.stamp > th[t].v

====
